---- MODULE Spec2Model ----
(***************************************************************************)
(* The assistant-reply streaming pipeline of ai_chat:                      *)
(*   routes/chats.ts   POST /:id/messages   (the route that owns the sink) *)
(*   services/chatService.ts  streamAssistantReply, mapUpstreamError       *)
(*   providers/openrouter.ts  openRouterStreamChat, openRouterGenerateTitle*)
(*   utils/sse.ts             extractSseDataLines                           *)
(*                                                                         *)
(* Text is a sequence of symbols.  A symbol is a one-character string      *)
(* ("a", " ", "\n"), or a longer string standing for an indivisible run of *)
(* characters (the "data:" marker, a JSON document, a fixed message).      *)
(***************************************************************************)
EXTENDS Integers, Sequences, FiniteSets, TLC

VARIABLES
    pc,             \* position of the request inside route / service / provider
    now,            \* Date.now(), in ms
    aborted,        \* abortController.signal.aborted
    isFirstMessage, \* history.length === 0
    messages,       \* rows of the messages table, in id order
    assistantMsgId, \* assistantMsg.id, 0 before the placeholder is inserted
    chat,           \* the chats row: title, updatedAt
    assistantText,  \* the accumulator
    lastPersist,    \* the throttle's timestamp
    buffer,         \* the decoder's carry buffer
    dataLines,      \* payloads of the current event block still to be processed
    sink,           \* reply.raw: every chunk written, in order
    sinkEnded,      \* reply.raw.end() was called
    result,         \* what streamAssistantReply returned ("none" before)
    faultsLeft,     \* how many store operations of this run may still throw
    nReads,         \* chunks delivered by reader.read() so far
    received,       \* history: everything reader.read() delivered, in order
    titleReply,     \* history: how the title request of this session settled
    peer,           \* a second request on the same chat
    suspended,      \* the decode loop's last handler call awaited the store
    fetched,        \* history: how the provider call ended ("pending" before)
    sessionStart,   \* history: Date.now() when the throttle was initialised
    trip,           \* history: where the request was when the signal aborted
    events,         \* history: the handler calls made by openRouterStreamChat
    dbLog           \* history: the store operations applied, in order

vars == <<pc, now, aborted, isFirstMessage, messages, assistantMsgId, chat, assistantText,
          lastPersist, buffer, dataLines, sink, sinkEnded, result, faultsLeft,
          nReads, received, suspended, fetched, sessionStart, trip, events, dbLog, titleReply,
          peer>>

(***************************************************************************)
(* Bounds of the model.                                                    *)
(***************************************************************************)
TickMs == 125
MaxClock == 625
MaxChunks == 2
MaxFaults == 1

(***************************************************************************)
(* Text helpers (String.prototype methods used by the code).               *)
(***************************************************************************)
IsSpace(c) == c \in {" ", "\n"}

RECURSIVE TrimStart(_)
TrimStart(t) ==
    IF t # <<>> /\ IsSpace(Head(t)) THEN TrimStart(Tail(t)) ELSE t

RECURSIVE TrimEnd(_)
TrimEnd(t) ==
    IF t # <<>> /\ IsSpace(t[Len(t)]) THEN TrimEnd(SubSeq(t, 1, Len(t) - 1)) ELSE t

Trim(t) == TrimEnd(TrimStart(t))

IsPrefix(s, t) == Len(s) <= Len(t) /\ SubSeq(t, 1, Len(s)) = s

RECURSIVE Flatten(_)
Flatten(ss) == IF ss = <<>> THEN <<>> ELSE Head(ss) \o Flatten(Tail(ss))

\* buffer.indexOf("\n\n"): the first position of two adjacent line feeds, 0 if none
IndexOfBlankLine(b) ==
    LET hits == {i \in 1..(Len(b) - 1) : b[i] = "\n" /\ b[i + 1] = "\n"}
    IN  IF hits = {} THEN 0 ELSE CHOOSE i \in hits : \A j \in hits : i <= j

\* sseEvent.split("\n"): `text` is what is left to split, `line` the line being
\* collected (both bound as values, `t` and `cur`, before they are taken apart)
RECURSIVE SplitLines(_, _)
SplitLines(text, line) ==
    CHOOSE lines \in {
        IF t = <<>> THEN <<cur>>
        ELSE IF Head(t) = "\n" THEN <<cur>> \o SplitLines(Tail(t), <<>>)
        ELSE SplitLines(Tail(t), Append(cur, Head(t)))
      : t \in {text}, cur \in {line} } : TRUE

(***************************************************************************)
(* JSON documents.  JsonTable lists the documents the model's upstream can *)
(* send, each with what JSON.parse makes of it: `errorTruthy` is           *)
(* Boolean(json.error), `code` is error.code (0 when absent), `msg` is     *)
(* error.message when it is a string, `delta` is                          *)
(* choices[0].delta.content when it is a string.  `canon` is what          *)
(* JSON.stringify prints for the parsed value.                             *)
(***************************************************************************)
Doc(raw, canon, errorTruthy, code, msgIsString, msg, deltaIsString, delta) ==
    [raw |-> raw, canon |-> canon, errorTruthy |-> errorTruthy, code |-> code,
     msgIsString |-> msgIsString, msg |-> msg,
     deltaIsString |-> deltaIsString, delta |-> delta]

DeltaDoc(raw, text) == Doc(raw, raw, FALSE, 0, FALSE, <<>>, TRUE, text)
ErrorDoc(raw, canon, code, msgIsString, msg) ==
    Doc(raw, canon, TRUE, code, msgIsString, msg, FALSE, <<>>)
PlainDoc(raw) == Doc(raw, raw, FALSE, 0, FALSE, <<>>, FALSE, <<>>)

DeltaHel == "{\"choices\":[{\"delta\":{\"content\":\"Hel\"}}]}"
DeltaLo == "{\"choices\":[{\"delta\":{\"content\":\"lo\"}}]}"
DeltaBlank == "{\"choices\":[{\"delta\":{\"content\":\" \"}}]}"
DeltaEmpty == "{\"choices\":[{\"delta\":{\"content\":\"\"}}]}"
DeltaRole == "{\"choices\":[{\"delta\":{\"role\":\"assistant\"}}]}"
Err429 == "{\"error\":{\"code\":429,\"message\":\"slow down\"}}"
ErrMsg == "{\"error\":{\"message\":\"provider overloaded\"}}"
ErrMsgPadded == "{\"error\":{\"message\":\" provider overloaded \"}}"
ErrMsgBlank == "{\"error\":{\"message\":\" \"}}"
ErrCode502 == "{\"error\":{\"code\":502}}"
ErrCode502Spaced == "{ \"error\": { \"code\": 502 } }"
ErrString == "{\"error\":\"boom\"}"
EmptyObject == "{}"

JsonTable ==
    { DeltaDoc(DeltaHel, <<"Hel">>), DeltaDoc(DeltaLo, <<"lo">>),
      DeltaDoc(DeltaBlank, <<" ">>), DeltaDoc(DeltaEmpty, <<>>),
      PlainDoc(DeltaRole), PlainDoc(EmptyObject),
      ErrorDoc(Err429, Err429, 429, TRUE, <<"slow down">>),
      ErrorDoc(ErrMsg, ErrMsg, 0, TRUE, <<"provider overloaded">>),
      ErrorDoc(ErrMsgPadded, ErrMsgPadded, 0, TRUE,
               <<" ", "provider overloaded", " ">>),
      ErrorDoc(ErrMsgBlank, ErrMsgBlank, 0, TRUE, <<" ">>),
      ErrorDoc(ErrCode502, ErrCode502, 502, FALSE, <<>>),
      ErrorDoc(ErrCode502Spaced, ErrCode502, 502, FALSE, <<>>),
      ErrorDoc(ErrString, ErrString, 0, FALSE, <<>>) }

\* JSON.parse(s): s decodes exactly when it is one document of the table
JSONParses(s) == Len(s) = 1 /\ \E d \in JsonTable : d.raw = s[1]
JSONParse(s) == CHOOSE d \in JsonTable : d.raw = s[1]
JSONStringify(json) == <<json.canon>>

(***************************************************************************)
(* utils/sse.ts                                                            *)
(***************************************************************************)
RECURSIVE DataOf(_)
DataOf(lines) ==
    IF lines = <<>> THEN <<>>
    ELSE LET line == Head(lines)
         IN  (IF line # <<>> /\ Head(line) = "data:"
              THEN <<Trim(Tail(line))>> ELSE <<>>) \o DataOf(Tail(lines))

extractSseDataLines(sseEvent) == DataOf(SplitLines(sseEvent, <<>>))

(***************************************************************************)
(* services/chatService.ts: mapUpstreamError                                *)
(***************************************************************************)
MsgGeneric == <<"Something went wrong generating a response. Please try again.">>
MsgRateLimited ==
    <<"This model is temporarily rate-limited. Please retry in a moment or switch models.">>
MsgAuth ==
    <<"Authentication failed when calling the model provider. Check your OpenRouter API key.">>
MsgStreamEnded == <<"The model stream ended unexpectedly. Please try again.">>
MsgAborted == <<"Request was cancelled before a response was generated.">>

mapUpstreamError(status, rawBody) ==
    IF ~JSONParses(rawBody)
    THEN [errorCode |-> "upstream_error", errorMessage |-> MsgGeneric]
    ELSE LET parsed == JSONParse(rawBody)
             code == parsed.code
             msg == parsed.msg
         IN  IF status = 429 \/ code = 429
             THEN [errorCode |-> "rate_limited", errorMessage |-> MsgRateLimited]
             ELSE IF status = 401 \/ status = 403
             THEN [errorCode |-> "auth_error", errorMessage |-> MsgAuth]
             ELSE IF parsed.msgIsString /\ Trim(msg) # <<>>
             THEN [errorCode |-> "upstream_error", errorMessage |-> Trim(msg)]
             ELSE [errorCode |-> "upstream_error", errorMessage |-> MsgGeneric]

(***************************************************************************)
(* The store: the messages rows and the chats row, and the operations the  *)
(* service issues against them.  A handler issues its operations in order; *)
(* `fail` = k > 0 makes the k-th of them throw (nothing of it is applied,   *)
(* nothing after it is issued); `fail` = 0 lets all succeed.               *)
(***************************************************************************)
None == <<>>
Some(x) == <<x>>

Row(role, content, status, errorCode, errorMessage, parent) ==
    [role |-> role, content |-> content, status |-> status,
     errorCode |-> errorCode, errorMessage |-> errorMessage, parent |-> parent]

UserContent == <<"hi">>

\* a chat that already holds one finished exchange
PriorExchange ==
    << Row("user", <<"earlier">>, "complete", "null", None, 0),
       Row("assistant", <<"answer">>, "complete", "null", None, 1) >>

Op(op, by, final, content, status, errorCode, errorMessage) ==
    [op |-> op, by |-> by, final |-> final, content |-> content, status |-> status,
     errorCode |-> errorCode, errorMessage |-> errorMessage]

UpdateMessage(by, final, content, status, errorCode, errorMessage) ==
    Op("updateMessage", by, final, content, status, errorCode, errorMessage)
TouchChat(by) == Op("touchChat", by, FALSE, <<>>, "", "null", None)
SetTitle(title) == Op("setTitle", "onDone", FALSE, title, "", "null", None)

\* the assistant row of this request
AssistantMsg == messages[assistantMsgId]

Db(ms, ch, log) == [messages |-> ms, chat |-> ch, log |-> log]

\* mutant of lines 223, 239: the update is keyed by the newest row of the chat
MessageKey_NewestRow(own) == Len(messages)

\* .where(eq(messages.id, assistantMsg.id)): the row a session updates is
\* the one its own insert returned
MessageKey(own) == own

\* `session` issues `o` for the assistant row it inserted as `own`
ApplyOpOf(session, own, db, o, at, sent) ==
    LET id == MessageKey(own)
        entry == [op |-> o.op, by |-> o.by, final |-> o.final, at |-> at,
                  content |-> o.content, status |-> o.status, sent |-> sent,
                  session |-> session, id |-> IF o.op = "updateMessage" THEN id ELSE 0]
    IN  CASE o.op = "updateMessage" ->
               Db([db.messages EXCEPT ![id].content = o.content,
                                      ![id].status = o.status,
                                      ![id].errorCode = o.errorCode,
                                      ![id].errorMessage = o.errorMessage],
                  db.chat, Append(db.log, entry))
          [] o.op = "touchChat" ->
               Db(db.messages, [db.chat EXCEPT !.updatedAt = at],
                  Append(db.log, entry))
          [] o.op = "setTitle" ->
               Db(db.messages, [db.chat EXCEPT !.title = o.content],
                  Append(db.log, entry))

ApplyOp(db, o, at, sent) == ApplyOpOf("request", assistantMsgId, db, o, at, sent)

RECURSIVE ApplyOps(_, _, _, _)
ApplyOps(db, ops, at, sent) ==
    IF ops = <<>> THEN db
    ELSE ApplyOps(ApplyOp(db, Head(ops), at, sent), Tail(ops), at, sent)

Threw(ops, fail) == fail \in 1..Len(ops)
Applied(ops, fail) == IF Threw(ops, fail) THEN SubSeq(ops, 1, fail - 1) ELSE ops

\* the next state of the store after a handler issued `ops`
Issue(ops, fail, sent) ==
    \E applied \in {Applied(ops, fail)}, written \in {sent} :
      \E db \in {ApplyOps(Db(messages, chat, dbLog), applied, now, written)} :
        /\ messages' = db.messages
        /\ chat' = db.chat
        /\ dbLog' = db.log
        /\ faultsLeft' = IF Threw(ops, fail) THEN faultsLeft - 1 ELSE faultsLeft

FailPoints == IF faultsLeft > 0 THEN 0..2 ELSE {0}

SinkText == Flatten(sink)

(***************************************************************************)
(* services/chatService.ts: the closures of streamAssistantReply           *)
(***************************************************************************)
persistEveryMs == 250
clientDisconnected == FALSE

OkResult == [ok |-> TRUE, code |-> 200, error |-> <<>>]
\* mutant of lines 155-172: a failed precondition is returned as a success
Failure_AsOk(code, error) == [ok |-> TRUE, code |-> code, error |-> error]

Failure(code, error) == [ok |-> FALSE, code |-> code, error |-> error]
NoResult == [ok |-> FALSE, code |-> 0, error |-> <<>>]

\* `\n[ERROR] ${errorMessage}\n`
ErrorNotice(errorMessage) == <<"\n", "[ERROR] ">> \o errorMessage \o <<"\n">>

\* mutants of line 255: `=` for `+=`, and the delta put in front
onDeltaText_Overwrites(text, delta) == delta
onDeltaText_Prepends(text, delta) == delta \o text

\* line 255: assistantText += delta
onDeltaText(text, delta) == text \o delta

\* mutant of the sink: the chunk is not written
writeToClient_Drops(chunk) == sink

\* routes/chats.ts line 730: reply.raw.write(chunk)
writeToClient(chunk) == Append(sink, chunk)

\* mutants of line 212: no throttle at all, and a throttle that ignores `final`
persistWrites_NoThrottle(final) == TRUE
persistWrites_ThrottlesFinal(final) == now - lastPersist >= persistEveryMs

\* line 212 lets the write through
persistWrites(final) == final \/ now - lastPersist >= persistEveryMs

\* mutant of line 219: the final flush leaves the status streaming
persistStatus_AlwaysStreaming(final) == "streaming"

\* line 219
persistStatus(final) == IF final THEN "complete" ELSE "streaming"

\* mutant of lines 220-221: persist leaves errorCode and errorMessage as they are
persistOps_KeepsErrorFields(final, text) ==
    IF persistWrites(final)
    THEN << UpdateMessage("persist", final, text, persistStatus(final),
                          AssistantMsg.errorCode, AssistantMsg.errorMessage),
            TouchChat("persist") >>
    ELSE <<>>

persistOps(final, text) ==
    IF persistWrites(final)
    THEN << UpdateMessage("persist", final, text, persistStatus(final), "null", None),
            TouchChat("persist") >>
    ELSE <<>>

\* mutant of lines 212-213: the timestamp is taken before the throttle test
persist_StampsAlways(final, text, fail, sent) ==
    /\ lastPersist' = now
    /\ Issue(persistOps(final, text), fail, sent)

persist(final, text, fail, sent) ==
    /\ lastPersist' = IF persistWrites(final) THEN now ELSE lastPersist
    /\ Issue(persistOps(final, text), fail, sent)

\* mutant of line 229: the error is not classified
markErrorOps_Unclassified(statusCode, rawBody) ==
    << UpdateMessage("markError", FALSE, MsgGeneric, "error",
                     "upstream_error", Some(MsgGeneric)),
       TouchChat("markError") >>

\* mutant of line 237: the partial content is left in place
markErrorOps_KeepsContent(statusCode, rawBody) ==
    LET e == mapUpstreamError(statusCode, rawBody)
    IN  << UpdateMessage("markError", FALSE, AssistantMsg.content, "error",
                         e.errorCode, Some(e.errorMessage)),
           TouchChat("markError") >>

markErrorOps(statusCode, rawBody) ==
    LET e == mapUpstreamError(statusCode, rawBody)
    IN  << UpdateMessage("markError", FALSE, e.errorMessage, "error",
                         e.errorCode, Some(e.errorMessage)),
           TouchChat("markError") >>

markError(statusCode, rawBody, fail) ==
    LET ops == markErrorOps(statusCode, rawBody)
        e == mapUpstreamError(statusCode, rawBody)
    IN  /\ Issue(ops, fail, SinkText)
        /\ sink' = IF Threw(ops, fail) THEN sink
                   ELSE writeToClient(ErrorNotice(e.errorMessage))

streamEndedOps ==
    << UpdateMessage("stream_ended", FALSE, MsgStreamEnded, "error",
                     "stream_ended", Some(MsgStreamEnded)) >>

\* mutant of lines 305-313: the catch block records the wrong classification
abortedOps_AsStreamEnded == streamEndedOps

abortedOps ==
    << UpdateMessage("aborted", FALSE, MsgAborted, "error",
                     "aborted", Some(MsgAborted)) >>

\* mutant of lines 264 and 300: every accumulator counts as a response
HasText_Always(text) == TRUE

\* assistantText.trim().length
HasText(text) == Trim(text) # <<>>

\* mutant of line 264: an empty response is not told apart
onDoneEndsEmpty_Never == FALSE

\* onDone, lines 262-278: the part before the title request
onDoneEndsEmpty == ~HasText(assistantText) /\ ~clientDisconnected

\* mutant of lines 264-277: onDone never takes the final flush
onDoneOps_AlwaysStreamEnded == streamEndedOps

onDoneOps == IF onDoneEndsEmpty THEN streamEndedOps ELSE persistOps(TRUE, assistantText)

\* mutant of part_000 line 66: the decoder goes on after onDone returned
onDone_Continues(fail) ==
    /\ Issue(onDoneOps, fail, SinkText)
    /\ lastPersist' = IF onDoneEndsEmpty THEN lastPersist ELSE now
    /\ pc' = IF Threw(onDoneOps, fail) THEN "catch" ELSE "loop"
    /\ result' = result

\* mutant of lines 277-281: the title is requested before the final flush
onDone_TitleFirst(fail) ==
    /\ Issue(IF ~onDoneEndsEmpty /\ isFirstMessage THEN <<>> ELSE onDoneOps, fail, SinkText)
    /\ lastPersist' = IF onDoneEndsEmpty \/ isFirstMessage THEN lastPersist ELSE now
    /\ pc' = IF ~onDoneEndsEmpty /\ isFirstMessage THEN "title"
             ELSE IF Threw(onDoneOps, fail) THEN "catch"
             ELSE "respond"
    /\ result' = IF pc' = "respond" THEN OkResult ELSE result

onDone(fail) ==
    /\ Issue(onDoneOps, fail, SinkText)
    /\ lastPersist' = IF onDoneEndsEmpty THEN lastPersist ELSE now
    /\ pc' = IF Threw(onDoneOps, fail) THEN "catch"
             ELSE IF ~onDoneEndsEmpty /\ isFirstMessage THEN "title"
             ELSE "respond"
    /\ result' = IF pc' = "respond" THEN OkResult ELSE result

Event(kind, status, arg) == [kind |-> kind, status |-> status, arg |-> arg]

(***************************************************************************)
(* providers/openrouter.ts: the decode loop of openRouterStreamChat.       *)
(* NextEvent runs the two nested loops from the current carry buffer and   *)
(* the payloads left of the current block up to the next handler call, or  *)
(* to the point where the buffer holds no complete block.                  *)
(***************************************************************************)
Found(kind, data, buf, lines) ==
    [kind |-> kind, data |-> data, buffer |-> buf, dataLines |-> lines]

\* mutant of part_000 line 73: a payload that does not parse ends its block
RECURSIVE NextEvent_BreaksAtMalformed(_, _)
NextEvent_BreaksAtMalformed(carry, payloads) ==
    CHOOSE found \in {
        IF lines # <<>>
        THEN LET data == Head(lines)
                 rest == Tail(lines)
             IN  IF data = <<>> THEN NextEvent_BreaksAtMalformed(buf, rest)
                 ELSE IF data = <<"[DONE]">> THEN Found("done", data, buf, rest)
                 ELSE IF ~JSONParses(data) THEN NextEvent_BreaksAtMalformed(buf, <<>>)
                 ELSE LET json == JSONParse(data)
                      IN  IF json.errorTruthy
                          THEN Found("error", JSONStringify(json), buf, rest)
                          ELSE IF json.deltaIsString /\ json.delta # <<>>
                          THEN Found("delta", json.delta, buf, rest)
                          ELSE NextEvent_BreaksAtMalformed(buf, rest)
        ELSE LET idx == IndexOfBlankLine(buf)
             IN  IF idx = 0 THEN Found("none", <<>>, buf, <<>>)
                 ELSE LET eventBlock == SubSeq(buf, 1, idx - 1)
                          after == SubSeq(buf, idx + 2, Len(buf))
                      IN  IF eventBlock # <<>> /\ Head(eventBlock) = ":"
                          THEN NextEvent_BreaksAtMalformed(after, <<>>)
                          ELSE NextEvent_BreaksAtMalformed(after, extractSseDataLines(eventBlock))
      : buf \in {carry}, lines \in {payloads} } : TRUE

\* (the carry buffer and the payloads are bound as values, `buf` and `lines`,
\* before the loops run on them)
RECURSIVE NextEvent(_, _)
NextEvent(carry, payloads) ==
    CHOOSE found \in {
        IF lines # <<>>
        THEN LET data == Head(lines)
                 rest == Tail(lines)
             IN  IF data = <<>> THEN NextEvent(buf, rest)
                 ELSE IF data = <<"[DONE]">> THEN Found("done", data, buf, rest)
                 ELSE IF ~JSONParses(data) THEN NextEvent(buf, rest)
                 ELSE LET json == JSONParse(data)
                      IN  IF json.errorTruthy
                          THEN Found("error", JSONStringify(json), buf, rest)
                          ELSE IF json.deltaIsString /\ json.delta # <<>>
                          THEN Found("delta", json.delta, buf, rest)
                          ELSE NextEvent(buf, rest)
        ELSE LET idx == IndexOfBlankLine(buf)
             IN  IF idx = 0 THEN Found("none", <<>>, buf, <<>>)
                 ELSE LET eventBlock == SubSeq(buf, 1, idx - 1)
                          after == SubSeq(buf, idx + 2, Len(buf))
                      IN  IF eventBlock # <<>> /\ Head(eventBlock) = ":"
                          THEN NextEvent(after, <<>>)
                          ELSE NextEvent(after, extractSseDataLines(eventBlock))
      : buf \in {carry}, lines \in {payloads} } : TRUE

(***************************************************************************)
(* What the upstream can send.                                             *)
(***************************************************************************)
Frame(p) == <<"data:", " ", p, "\n", "\n">>

\* one block of two data lines
TwoLineBlock(p, q) == <<"data:", " ", p, "\n", "data:", " ", q, "\n", "\n">>

\* a block that is only a comment (the provider's keep-alive), and a block
\* whose first line is a comment and whose second line carries a payload
CommentBlock == <<":", " ", "OPENROUTER PROCESSING", "\n", "\n">>
CommentedBlock(p) == <<":", " ", "OPENROUTER PROCESSING", "\n", "data:", " ", p, "\n", "\n">>

Payloads == {DeltaHel, DeltaLo, DeltaBlank, "[DONE]", ErrMsg, "not json"}

Chunks ==
    {Frame(p) : p \in Payloads}
      \cup {Frame(DeltaHel) \o Frame(p) : p \in {DeltaLo, "[DONE]", ErrMsg}}
      \cup {TwoLineBlock(DeltaBlank, DeltaLo)}
      \cup {Frame(Err429) \o Frame(DeltaLo)}
      \cup {TwoLineBlock("not json", DeltaBlank) \o TwoLineBlock("[DONE]", DeltaLo)
              \o Frame(DeltaHel)}
      \cup {CommentBlock \o CommentedBlock(DeltaLo)}
      \cup {<<"data:", " ", DeltaLo, "\n">>, <<"\n">>}

\* status and body of a response that fails the check of line 37
\* (200 stands for an ok response without a body)
FailStatuses == {200, 401, 403, 429, 500}
Bodies ==
    { <<>>, <<"Too Many Requests">>, <<Err429>>, <<ErrMsg>>, <<ErrMsgPadded>>,
      <<ErrMsgBlank>>, <<ErrCode502Spaced>>, <<ErrString>>, <<EmptyObject>> }

(***************************************************************************)
(* providers/openrouter.ts: openRouterGenerateTitle.  A reply is how the   *)
(* title request settles: fetch rejects, or resolves with a response that  *)
(* is ok or not, whose body parses or not, with the text found at          *)
(* choices[0].message.content.                                             *)
(***************************************************************************)
TitleReply(settled, ok, parses, content) ==
    [settled |-> settled, ok |-> ok, parses |-> parses, content |-> content]

NoReply == TitleReply("none", FALSE, FALSE, <<>>)
Rejected == TitleReply("rejected", FALSE, FALSE, <<>>)

TitleReplies ==
    { Rejected,
      TitleReply("resolved", FALSE, TRUE, <<"Greeting">>),
      TitleReply("resolved", TRUE, FALSE, <<>>),
      TitleReply("resolved", TRUE, TRUE, <<" ">>),
      TitleReply("resolved", TRUE, TRUE, <<"\"", "\"">>),
      TitleReply("resolved", TRUE, TRUE, <<" ", "\"", "Greeting", "\"">>) }

IsQuote(c) == c \in {"\"", "'"}

\* raw.replace(/^["']|["']$/g, "")
StripQuotes(t) ==
    LET a == IF t # <<>> /\ IsQuote(Head(t)) THEN Tail(t) ELSE t
    IN  IF a # <<>> /\ IsQuote(a[Len(a)]) THEN SubSeq(a, 1, Len(a) - 1) ELSE a

\* mutant of lines 101-137: a failed title request is not caught
openRouterGenerateTitle_Leaks(reply) == Some(reply.content)

\* null, or the cleaned title (the titles of the model are shorter than the
\* 100 characters of the clamp)
openRouterGenerateTitle(reply) ==
    IF reply.settled = "rejected" THEN None
    ELSE IF ~reply.ok THEN None
    ELSE IF ~reply.parses THEN None
    ELSE LET raw == Trim(reply.content)
         IN  IF raw = <<>> THEN None
             ELSE LET clean == Trim(StripQuotes(raw))
                  IN  IF clean = <<>> THEN None ELSE Some(clean)

\* what openRouterGenerateTitle returns: null, or the cleaned title
Titles == {openRouterGenerateTitle(reply) : reply \in TitleReplies}

(***************************************************************************)
(* Initial state: the route has hijacked the reply, registered the abort   *)
(* listeners and is about to call streamAssistantReply.                    *)
(***************************************************************************)
NoTrip == [pc |-> "", empty |-> TRUE, sent |-> <<>>, pending |-> <<>>]

\* the second request: where it is, what its history query found, the rows
\* it inserted, whether it has sent a title request, and its own accumulator
\* and throttle timestamp (lines 203-207: both are locals of the call)
Peer(at, first, userMsgId, msgId, titled) ==
    [pc |-> at, isFirstMessage |-> first, userMsgId |-> userMsgId, assistantMsgId |-> msgId,
     titled |-> titled, assistantText |-> <<>>, lastPersist |-> 0]

NoPeer == Peer("none", FALSE, 0, 0, FALSE)

\* the request, before its first statement
InitRequest ==
    /\ pc = "precheck"
    /\ now = 0
    /\ aborted = FALSE
    /\ isFirstMessage = FALSE
    /\ assistantMsgId = 0
    /\ chat = [title |-> <<"New chat">>, updatedAt |-> 0]
    /\ assistantText = <<>>
    /\ lastPersist = 0
    /\ buffer = <<>>
    /\ dataLines = <<>>
    /\ sink = <<>>
    /\ sinkEnded = FALSE
    /\ result = NoResult
    /\ nReads = 0
    /\ received = <<>>
    /\ suspended = FALSE
    /\ fetched = "pending"
    /\ sessionStart = 0
    /\ trip = NoTrip
    /\ events = <<>>
    /\ dbLog = <<>>
    /\ titleReply = NoReply

InitCommon == InitRequest /\ messages \in {<<>>, PriorExchange}

Init == InitCommon /\ faultsLeft = 0 /\ peer = NoPeer

InitFail == InitCommon /\ faultsLeft = MaxFaults /\ peer = NoPeer

\* streamAssistantReply has not returned or thrown yet: only then does the
\* clock or the signal decide anything
Running == pc \notin {"respond", "done", "crashed"}

Relaying == pc \in {"read", "loop"}

relay == <<assistantText, lastPersist, buffer, dataLines, nReads, received, suspended,
           sessionStart, events>>
store == <<messages, assistantMsgId, chat, dbLog, faultsLeft>>

(***************************************************************************)
(* Environment.                                                            *)
(***************************************************************************)
Tick ==
    /\ Running
    /\ now + TickMs <= MaxClock
    /\ now' = now + TickMs
    /\ UNCHANGED <<pc, aborted, trip, isFirstMessage, relay, store, sink, sinkEnded, result, fetched, titleReply, peer>>

\* the deltas the decode loop still delivers from what it has already read
RECURSIVE PendingDeltas(_, _)
PendingDeltas(buf, lines) ==
    LET ev == NextEvent(buf, lines)
    IN  IF ev.kind = "delta"
        THEN ev.data \o PendingDeltas(ev.buffer, ev.dataLines)
        ELSE <<>>

\* request "aborted" or reply "close": abortController.abort().  The listener
\* runs when the request is suspended on I/O: inside the decode loop that is
\* only while a handler awaits the store (the loop's other awaits resolve
\* without leaving the job that the read started)
Abort ==
    /\ Running
    /\ ~aborted
    /\ pc = "loop" => suspended
    /\ aborted' = TRUE
    /\ trip' = IF Relaying
               THEN [pc |-> "relaying", empty |-> (assistantText = <<>>),
                     sent |-> SinkText, pending |-> PendingDeltas(buffer, dataLines)]
               ELSE [pc |-> "other", empty |-> (assistantText = <<>>),
                     sent |-> <<>>, pending |-> <<>>]
    /\ UNCHANGED <<pc, now, isFirstMessage, relay, store, sink, sinkEnded, result, fetched, titleReply, peer>>

(***************************************************************************)
(* streamAssistantReply, lines 150-207                                     *)
(***************************************************************************)
Precheck ==
    /\ pc = "precheck"
    /\ \E outcome \in {"ok", "not found", "forbidden", "no model"} :
         /\ result' = CASE outcome = "ok" -> result
                        [] outcome = "not found" -> Failure(404, <<"Chat not found">>)
                        [] outcome = "forbidden" -> Failure(403, <<"Forbidden">>)
                        [] outcome = "no model" ->
                             Failure(500, <<"No model configured (OPENROUTER_MODEL or chat.modelId)">>)
         /\ pc' = IF outcome = "ok" THEN "insert" ELSE "respond"
         /\ isFirstMessage' = IF outcome = "not found" THEN isFirstMessage
                              ELSE (Len(messages) = 0)
    /\ UNCHANGED <<now, aborted, trip, relay, store, sink, sinkEnded, fetched, titleReply, peer>>

InsertMessages ==
    /\ pc = "insert"
    /\ \E fail \in FailPoints :
         LET userMsg == Row("user", UserContent, "complete", "null", None, 0)
             userMsgId == Len(messages) + 1
             assistantMsg == Row("assistant", <<>>, "streaming", "null", None, userMsgId)
         IN  /\ messages' = CASE fail = 0 -> messages \o <<userMsg, assistantMsg>>
                              [] fail = 1 -> messages
                              [] fail = 2 -> Append(messages, userMsg)
             /\ assistantMsgId' = IF fail = 0 THEN userMsgId + 1 ELSE 0
             /\ faultsLeft' = IF fail = 0 THEN faultsLeft ELSE faultsLeft - 1
             /\ pc' = IF fail = 0 THEN "fetch" ELSE "crashed"
    /\ assistantText' = <<>>
    /\ lastPersist' = now
    /\ sessionStart' = now
    /\ UNCHANGED <<now, aborted, trip, isFirstMessage, chat, dbLog, buffer, dataLines,
                   nReads, suspended, events, sink, sinkEnded, result, fetched, received, titleReply, peer>>

(***************************************************************************)
(* openRouterStreamChat, lines 21-41                                       *)
(***************************************************************************)
\* fetch rejects: the signal is aborted, or the provider cannot be reached
FetchThrows ==
    /\ pc = "fetch"
    /\ pc' = "catch"
    /\ fetched' = "rejected"
    /\ UNCHANGED <<now, aborted, trip, isFirstMessage, relay, store, sink, sinkEnded, result,
                   titleReply, peer>>

FetchHttpError ==
    /\ pc = "fetch"
    /\ ~aborted
    /\ \E status \in FailStatuses, text \in Bodies, fail \in FailPoints :
         /\ markError(status, text, fail)
         /\ events' = Append(events, Event("error", status, text))
         /\ pc' = IF Threw(markErrorOps(status, text), fail) THEN "catch" ELSE "respond"
         /\ result' = IF pc' = "respond" THEN OkResult ELSE result
    /\ fetched' = "resolved"
    /\ UNCHANGED <<now, aborted, trip, sessionStart, isFirstMessage, assistantMsgId, assistantText,
                   lastPersist, buffer, dataLines, nReads, suspended, sinkEnded, received,
                   titleReply, peer>>

FetchOk ==
    /\ pc = "fetch"
    /\ ~aborted
    /\ pc' = "read"
    /\ fetched' = "resolved"
    /\ UNCHANGED <<now, aborted, trip, isFirstMessage, relay, store, sink, sinkEnded, result,
                   titleReply, peer>>

(***************************************************************************)
(* openRouterStreamChat, lines 47-91                                       *)
(***************************************************************************)
\* mutant of part_000 line 52: the chunk replaces the carry buffer
ReadChunk_ReplacesBuffer ==
    /\ pc = "read"
    /\ ~aborted
    /\ nReads < MaxChunks
    /\ \E value \in Chunks :
         /\ buffer' = value
         /\ received' = received \o value
    /\ nReads' = nReads + 1
    /\ suspended' = FALSE
    /\ pc' = "loop"
    /\ UNCHANGED <<now, aborted, trip, sessionStart, isFirstMessage, assistantText, lastPersist, dataLines,
                   events, store, sink, sinkEnded, result, fetched, titleReply, peer>>

\* mutant of part_000 line 34: the body is read without the signal
ReadChunk_IgnoresSignal ==
    /\ pc = "read"
    /\ nReads < MaxChunks
    /\ \E value \in Chunks :
         /\ buffer' = buffer \o value
         /\ received' = received \o value
    /\ nReads' = nReads + 1
    /\ suspended' = FALSE
    /\ pc' = "loop"
    /\ UNCHANGED <<now, aborted, trip, sessionStart, isFirstMessage, assistantText, lastPersist, dataLines,
                   events, store, sink, sinkEnded, result, fetched, titleReply, peer>>

ReadChunk ==
    /\ pc = "read"
    /\ ~aborted
    /\ nReads < MaxChunks
    /\ \E value \in Chunks :
         /\ buffer' = buffer \o value
         /\ received' = received \o value
    /\ nReads' = nReads + 1
    /\ suspended' = FALSE
    /\ pc' = "loop"
    /\ UNCHANGED <<now, aborted, trip, sessionStart, isFirstMessage, assistantText, lastPersist, dataLines,
                   events, store, sink, sinkEnded, result, fetched, titleReply, peer>>

\* reader.read() rejects: the abort errored the body, or the connection broke
ReadThrows ==
    /\ pc = "read"
    /\ pc' = "catch"
    /\ UNCHANGED <<now, aborted, trip, isFirstMessage, relay, store, sink, sinkEnded, result, fetched, titleReply, peer>>

\* done = true: the loop breaks and line 90 calls onDone
ReadDone ==
    /\ pc = "read"
    /\ ~aborted
    /\ \E fail \in FailPoints : onDone(fail)
    /\ events' = Append(events, Event("done", 0, <<"eof">>))
    /\ UNCHANGED <<now, aborted, trip, sessionStart, isFirstMessage, assistantMsgId, assistantText, buffer,
                   dataLines, nReads, suspended, sink, sinkEnded, fetched, received, titleReply, peer>>

\* mutant of lines 255-257: persist is called before the delta is written
DeliverDelta_PersistsFirst ==
    /\ pc = "loop"
    /\ \E ev \in {NextEvent(buffer, dataLines)} :
           /\ ev.kind = "delta"
           /\ buffer' = ev.buffer
           /\ dataLines' = ev.dataLines
           /\ assistantText' = onDeltaText(assistantText, ev.data)
           /\ sink' = writeToClient(ev.data)
           /\ events' = Append(events, Event("delta", 0, ev.data))
           /\ suspended' = persistWrites(FALSE)
           /\ \E fail \in FailPoints :
                /\ persist(FALSE, assistantText', fail, Flatten(sink))
                /\ pc' = IF Threw(persistOps(FALSE, assistantText'), fail)
                         THEN "catch" ELSE "loop"
    /\ UNCHANGED <<now, aborted, trip, sessionStart, isFirstMessage, assistantMsgId, nReads, sinkEnded, result, fetched, received, titleReply, peer>>

\* the inner loops reach a delta: onDelta, lines 254-258
DeliverDelta ==
    /\ pc = "loop"
    /\ \E ev \in {NextEvent(buffer, dataLines)} :
           /\ ev.kind = "delta"
           /\ buffer' = ev.buffer
           /\ dataLines' = ev.dataLines
           /\ assistantText' = onDeltaText(assistantText, ev.data)
           /\ sink' = writeToClient(ev.data)
           /\ events' = Append(events, Event("delta", 0, ev.data))
           /\ suspended' = persistWrites(FALSE)
           /\ \E fail \in FailPoints :
                /\ persist(FALSE, assistantText', fail, Flatten(sink'))
                /\ pc' = IF Threw(persistOps(FALSE, assistantText'), fail)
                         THEN "catch" ELSE "loop"
    /\ UNCHANGED <<now, aborted, trip, sessionStart, isFirstMessage, assistantMsgId, nReads, sinkEnded, result, fetched, received, titleReply, peer>>

\* mutant of part_000 line 78: the decoder goes on after onError returned
DeliverError_Continues ==
    /\ pc = "loop"
    /\ \E ev \in {NextEvent(buffer, dataLines)} :
           /\ ev.kind = "error"
           /\ buffer' = ev.buffer
           /\ dataLines' = ev.dataLines
           /\ events' = Append(events, Event("error", 500, ev.data))
           /\ \E fail \in FailPoints :
                /\ markError(500, ev.data, fail)
                /\ pc' = IF Threw(markErrorOps(500, ev.data), fail)
                         THEN "catch" ELSE "loop"
                /\ result' = IF pc' = "respond" THEN OkResult ELSE result
    /\ UNCHANGED <<now, aborted, trip, sessionStart, isFirstMessage, assistantMsgId, assistantText,
                   lastPersist, nReads, suspended, sinkEnded, fetched, received, titleReply, peer>>

\* the inner loops reach a payload with an error field: onError(500, ...)
DeliverError ==
    /\ pc = "loop"
    /\ \E ev \in {NextEvent(buffer, dataLines)} :
           /\ ev.kind = "error"
           /\ buffer' = ev.buffer
           /\ dataLines' = ev.dataLines
           /\ events' = Append(events, Event("error", 500, ev.data))
           /\ \E fail \in FailPoints :
                /\ markError(500, ev.data, fail)
                /\ pc' = IF Threw(markErrorOps(500, ev.data), fail)
                         THEN "catch" ELSE "respond"
                /\ result' = IF pc' = "respond" THEN OkResult ELSE result
    /\ UNCHANGED <<now, aborted, trip, sessionStart, isFirstMessage, assistantMsgId, assistantText,
                   lastPersist, nReads, suspended, sinkEnded, fetched, received, titleReply, peer>>

\* the inner loops reach the sentinel: onDone, then return
DeliverDone ==
    /\ pc = "loop"
    /\ \E ev \in {NextEvent(buffer, dataLines)} :
           /\ ev.kind = "done"
           /\ buffer' = ev.buffer
           /\ dataLines' = ev.dataLines
           /\ events' = Append(events, Event("done", 0, ev.data))
           /\ \E fail \in FailPoints : onDone(fail)
    /\ UNCHANGED <<now, aborted, trip, sessionStart, isFirstMessage, assistantMsgId, assistantText, nReads,
                   suspended, sink, sinkEnded, fetched, received, titleReply, peer>>

LoopDrained_DropsCarry ==
    /\ pc = "loop"
    /\ \E ev \in {NextEvent(buffer, dataLines)} :
           /\ ev.kind = "none"
           /\ buffer' = <<>>
           /\ dataLines' = ev.dataLines
    /\ pc' = "read"
    /\ UNCHANGED <<now, aborted, trip, sessionStart, isFirstMessage, assistantText, lastPersist, nReads,
                   suspended, events, store, sink, sinkEnded, result, fetched, received, titleReply, peer>>

\* no complete block is left in the buffer: back to reader.read()
LoopDrained ==
    /\ pc = "loop"
    /\ \E ev \in {NextEvent(buffer, dataLines)} :
           /\ ev.kind = "none"
           /\ buffer' = ev.buffer
           /\ dataLines' = ev.dataLines
    /\ pc' = "read"
    /\ UNCHANGED <<now, aborted, trip, sessionStart, isFirstMessage, assistantText, lastPersist, nReads,
                   suspended, events, store, sink, sinkEnded, result, fetched, received, titleReply, peer>>

(***************************************************************************)
(* onDone, lines 279-291: the title of a first exchange                    *)
(***************************************************************************)
GenerateTitle ==
    /\ pc = "title"
    /\ \E reply \in (IF aborted THEN {Rejected} ELSE TitleReplies), fail \in FailPoints :
         \E title \in {openRouterGenerateTitle(reply)} :
           LET ops == IF title = None THEN <<>> ELSE <<SetTitle(title[1])>>
           IN  /\ Issue(ops, fail, SinkText)
               /\ pc' = IF Threw(ops, fail) THEN "catch" ELSE "respond"
               /\ titleReply' = reply
    /\ result' = IF pc' = "respond" THEN OkResult ELSE result
    /\ UNCHANGED <<now, aborted, trip, isFirstMessage, assistantMsgId, relay, sink, sinkEnded, fetched, peer>>

(***************************************************************************)
(* streamAssistantReply, lines 298-316: the catch block                    *)
(***************************************************************************)
\* mutant of lines 300-303: the catch block forgets the partial text
catchOps_AlwaysAborted == abortedOps

catchOps == IF HasText(assistantText) THEN persistOps(TRUE, assistantText) ELSE abortedOps

Catch ==
    /\ pc = "catch"
    /\ \E fail \in FailPoints :
         /\ Issue(catchOps, fail, SinkText)
         /\ pc' = IF Threw(catchOps, fail) THEN "crashed" ELSE "respond"
    /\ lastPersist' = IF HasText(assistantText) THEN now ELSE lastPersist
    /\ result' = IF pc' = "respond" THEN OkResult ELSE result
    /\ UNCHANGED <<now, aborted, trip, isFirstMessage, assistantMsgId, assistantText, buffer,
                   dataLines, nReads, suspended, sessionStart, events, sink, sinkEnded, fetched, received, titleReply, peer>>

(***************************************************************************)
(* routes/chats.ts, lines 733-739                                          *)
(***************************************************************************)
\* mutant of line 739: the reply is never ended
Respond_LeavesOpen ==
    /\ pc = "respond"
    /\ sink' = IF ~result.ok THEN writeToClient(ErrorNotice(result.error)) ELSE sink
    /\ pc' = "done"
    /\ UNCHANGED <<now, aborted, trip, isFirstMessage, relay, store, result, fetched,
                   sinkEnded, titleReply, peer>>

\* mutant of line 733: the route also reports the errors of the session
Respond_ReportsSessionErrors ==
    /\ pc = "respond"
    /\ sink' = IF ~result.ok THEN writeToClient(ErrorNotice(result.error))
               ELSE IF assistantMsgId # 0 /\ AssistantMsg.status = "error"
               THEN writeToClient(ErrorNotice(AssistantMsg.content))
               ELSE sink
    /\ sinkEnded' = TRUE
    /\ pc' = "done"
    /\ UNCHANGED <<now, aborted, trip, isFirstMessage, relay, store, result, fetched, titleReply, peer>>

Respond ==
    /\ pc = "respond"
    /\ sink' = IF ~result.ok THEN writeToClient(ErrorNotice(result.error)) ELSE sink
    /\ sinkEnded' = TRUE
    /\ pc' = "done"
    /\ UNCHANGED <<now, aborted, trip, isFirstMessage, relay, store, result, fetched, titleReply, peer>>

Next ==
    \/ Tick
    \/ Abort
    \/ Precheck
    \/ InsertMessages
    \/ FetchThrows
    \/ FetchHttpError
    \/ FetchOk
    \/ ReadChunk
    \/ ReadThrows
    \/ ReadDone
    \/ DeliverDelta
    \/ DeliverError
    \/ DeliverDone
    \/ LoopDrained
    \/ GenerateTitle
    \/ Catch
    \/ Respond

Spec == Init /\ [][Next]_vars

\* the same program with a store of which MaxFaults operations throw
SpecFail == InitFail /\ [][Next]_vars

\* The steps of the request itself.  Every await of the code is on the store,
\* on the provider or on the client signal: the provider settles every call
\* (a response, a chunk, the end of the body, or a rejection once the signal is
\* aborted), and the event loop then runs the continuation.
Proceed ==
    \/ Precheck
    \/ InsertMessages
    \/ FetchThrows
    \/ FetchHttpError
    \/ FetchOk
    \/ ReadChunk
    \/ ReadThrows
    \/ ReadDone
    \/ DeliverDelta
    \/ DeliverError
    \/ DeliverDone
    \/ LoopDrained
    \/ GenerateTitle
    \/ Catch
    \/ Respond

SpecLive == Init /\ [][Next]_vars /\ WF_vars(Proceed)

(***************************************************************************)
(* Two requests on one chat.  The route runs streamAssistantReply once per *)
(* POST, and nothing serializes two POSTs on the same chat: their awaits   *)
(* interleave.  The second request is followed through the steps that      *)
(* touch the store: the history query, its two inserts, the write that     *)
(* ends its relay, and its title request.  Both requests run within one    *)
(* throttle window (the clock stands still), so the first one writes by    *)
(* its final flush, its error paths and its title request; the throttled   *)
(* flush is the same statement as the final one.                           *)
(***************************************************************************)
own == <<pc, now, aborted, isFirstMessage, assistantMsgId, relay, sink, sinkEnded, result,
         faultsLeft, fetched, trip, titleReply>>

PeerContent == <<"hello">>
PeerText == <<"Hey">>

RECURSIVE ApplyOpsOf(_, _, _, _, _, _)
ApplyOpsOf(session, id, db, ops, at, sent) ==
    IF ops = <<>> THEN db
    ELSE ApplyOpsOf(session, id, ApplyOpOf(session, id, db, Head(ops), at, sent),
                    Tail(ops), at, sent)

\* the store after the second request issued `ops`
PeerIssue(ops) ==
    \E db \in {ApplyOpsOf("peer", peer.assistantMsgId, Db(messages, chat, dbLog), ops, now,
                          <<>>)} :
        /\ messages' = db.messages
        /\ chat' = db.chat
        /\ dbLog' = db.log

\* lines 150-164: the chat is found, and the history query decides isFirstMessage
PeerPrecheck ==
    /\ peer.pc = "precheck"
    /\ peer' = [peer EXCEPT !.pc = "insertUser", !.isFirstMessage = (Len(messages) = 0)]
    /\ UNCHANGED <<own, messages, chat, dbLog>>

\* lines 176-187
PeerInsertUser ==
    /\ peer.pc = "insertUser"
    /\ messages' = Append(messages, Row("user", PeerContent, "complete", "null", None, 0))
    /\ peer' = [peer EXCEPT !.pc = "insertAssistant", !.userMsgId = Len(messages) + 1]
    /\ UNCHANGED <<own, chat, dbLog>>

\* mutant of line 196: the parent is the newest row of the chat, not the
\* row that the request's own insert returned
PeerInsertAssistant_ParentIsNewest ==
    /\ peer.pc = "insertAssistant"
    /\ messages' = Append(messages,
                          Row("assistant", <<>>, "streaming", "null", None, Len(messages)))
    /\ peer' = [peer EXCEPT !.pc = "relay", !.assistantMsgId = Len(messages) + 1,
                             !.lastPersist = now]
    /\ UNCHANGED <<own, chat, dbLog>>

\* lines 190-201
PeerInsertAssistant ==
    /\ peer.pc = "insertAssistant"
    /\ messages' = Append(messages,
                          Row("assistant", <<>>, "streaming", "null", None, peer.userMsgId))
    /\ peer' = [peer EXCEPT !.pc = "relay", !.assistantMsgId = Len(messages) + 1,
                             !.lastPersist = now]
    /\ UNCHANGED <<own, chat, dbLog>>

\* the relay of the second request ends: onDone with a response (lines 277),
\* onDone without one (lines 264-274), or the catch block (lines 305-313)
PeerRelay ==
    /\ peer.pc = "relay"
    /\ \E ending \in {"complete", "stream_ended", "aborted"} :
         /\ PeerIssue(CASE ending = "complete" -> persistOps(TRUE, PeerText)
                         [] ending = "stream_ended" -> streamEndedOps
                         [] ending = "aborted" -> abortedOps)
         /\ peer' = [peer EXCEPT !.pc = IF ending = "complete" /\ peer.isFirstMessage
                                        THEN "title" ELSE "done"]
    /\ UNCHANGED own

\* lines 280-291
PeerGenerateTitle ==
    /\ peer.pc = "title"
    /\ \E reply \in TitleReplies :
         \E title \in {openRouterGenerateTitle(reply)} :
           PeerIssue(IF title = None THEN <<>> ELSE <<SetTitle(title[1])>>)
    /\ peer' = [peer EXCEPT !.pc = "done", !.titled = TRUE]
    /\ UNCHANGED own

InitPeer == InitCommon /\ faultsLeft = 0 /\ peer = Peer("precheck", FALSE, 0, 0, FALSE)

NextPeer ==
    \/ Abort
    \/ Proceed
    \/ PeerPrecheck
    \/ PeerInsertUser
    \/ PeerInsertAssistant
    \/ PeerRelay
    \/ PeerGenerateTitle

SpecPeer == InitPeer /\ [][NextPeer]_vars

(***************************************************************************)
(* Two relays at once, with the clock running.  The second request has     *)
(* inserted its two rows into an empty chat and is relaying when the first *)
(* one arrives; each of its deltas goes through its own onDelta and its    *)
(* own persist(false).  The first request is followed along the paths on   *)
(* which its relay runs: the provider answers, and the stream is read up   *)
(* to its terminal event.                                                  *)
(***************************************************************************)
MaxPeerDeltas == 2

PeerExchange ==
    << Row("user", PeerContent, "complete", "null", None, 0),
       Row("assistant", <<>>, "streaming", "null", None, 1) >>

\* mutant of lines 207-213: the throttle's timestamp is a module-level
\* variable, read by the persist of every session
PeerLastPersist_Shared == lastPersist

\* line 207: `let lastPersist` is a local of the call, one per session
PeerLastPersist == peer.lastPersist

\* lines 254-258 and 210-226, in the second request
PeerDeliverDelta ==
    /\ peer.pc = "relay"
    /\ Len(peer.assistantText) < MaxPeerDeltas
    /\ \E text \in {peer.assistantText \o PeerText},
          writes \in {now - PeerLastPersist >= persistEveryMs} :
         /\ PeerIssue(IF writes
                      THEN << UpdateMessage("persist", FALSE, text, persistStatus(FALSE),
                                            "null", None),
                              TouchChat("persist") >>
                      ELSE <<>>)
         /\ peer' = [peer EXCEPT !.assistantText = text,
                                  !.lastPersist = IF writes THEN now ELSE @]
    /\ UNCHANGED own

InitPair ==
    /\ InitRequest
    /\ messages = PeerExchange
    /\ faultsLeft = 0
    /\ peer = [Peer("relay", TRUE, 1, 2, FALSE) EXCEPT !.lastPersist = 0]

NextPair ==
    \/ Tick
    \/ Precheck
    \/ InsertMessages
    \/ FetchOk
    \/ ReadChunk
    \/ ReadDone
    \/ DeliverDelta
    \/ DeliverError
    \/ DeliverDone
    \/ LoopDrained
    \/ Respond
    \/ PeerDeliverDelta

SpecPair == InitPair /\ [][NextPair]_vars

(***************************************************************************)
(* Vocabulary of the properties.                                           *)
(***************************************************************************)
IsDelta(e) == e.kind = "delta"
DeltaEvents == SelectSeq(events, IsDelta)

RECURSIVE DataOfEvents(_)
DataOfEvents(es) == IF es = <<>> THEN <<>> ELSE <<Head(es).arg>> \o DataOfEvents(Tail(es))

\* the deltas handed to onDelta, as the chunks written for them, and their text
DeltaChunks == DataOfEvents(DeltaEvents)
SentDeltas == Flatten(DeltaChunks)

LastEventKind == IF events = <<>> THEN "" ELSE events[Len(events)].kind

\* streamAssistantReply returned for a request that created its assistant message
SessionEnded == pc \in {"respond", "done"} /\ assistantMsgId # 0

IsMessageWrite(e) == e.op = "updateMessage"
MessageWrites == SelectSeq(dbLog, IsMessageWrite)
IsPersistWrite(e) == e.op = "updateMessage" /\ e.by = "persist"
PersistWrites == SelectSeq(dbLog, IsPersistWrite)

\* the upstream answered 200 and delivered n >= 1 deltas and then the sentinel,
\* and the client stayed connected
HappyPath ==
    /\ SessionEnded
    /\ ~aborted
    /\ Len(events) >= 2
    /\ events[Len(events)] = Event("done", 0, <<"[DONE]">>)
    /\ \A i \in 1..(Len(events) - 1) : events[i].kind = "delta"

HappyOutcome ==
    /\ sink = DeltaChunks
    /\ AssistantMsg.status = "complete"
    /\ AssistantMsg.content = SentDeltas

(***************************************************************************)
(* C1. Happy path: deltas d1..dn (n >= 1) then [DONE], no cancellation, no *)
(* upstream error: the client is written exactly d1, .., dn, once each and *)
(* in order, and the message ends complete with content d1+...+dn.         *)
(* As stated this fails when every delta is white space: the response then *)
(* counts as empty and the message ends as error stream_ended.             *)
(***************************************************************************)
C1_HappyPathAsStated == HappyPath => HappyOutcome

\* C1 as amended: the same, for a response whose text is not only white space
C1_HappyPath == HappyPath /\ HasText(SentDeltas) => HappyOutcome

C1_Witness ==
    /\ HappyPath
    /\ pc = "done"
    /\ sink = << <<"Hel">>, <<"lo">> >>
    /\ AssistantMsg.status = "complete"
    /\ AssistantMsg.content = <<"Hel", "lo">>

(***************************************************************************)
(* C2. For every session that ends, the content persisted at its end is    *)
(* the concatenation of the deltas written to the client.  As stated this  *)
(* fails for every session that ends as error: the content is then the     *)
(* error text.                                                             *)
(***************************************************************************)
C2_ContentIsSentAsStated == SessionEnded => AssistantMsg.content = SentDeltas

\* C2 as amended: it holds of the sessions that end with status complete
C2_ContentIsSent ==
    SessionEnded /\ AssistantMsg.status = "complete" => AssistantMsg.content = SentDeltas

\* a session that ended complete at the end of the input, with two deltas sent
C2_Witness ==
    /\ SessionEnded
    /\ AssistantMsg.status = "complete"
    /\ Len(DeltaEvents) >= 2
    /\ events[Len(events)] = Event("done", 0, <<"eof">>)

(***************************************************************************)
(* C3. Status is monotone: once a durable write has set the status to      *)
(* complete or error, no later write of the session changes the message's  *)
(* status or content, on any path including handler exceptions.            *)
(* Checked against a store of which one operation throws (SpecFail).       *)
(***************************************************************************)
Terminal(m) == m.status \in {"complete", "error"}

C3_TerminalIsFinal ==
    [][assistantMsgId # 0 /\ Terminal(AssistantMsg)
         => /\ AssistantMsg'.status = AssistantMsg.status
            /\ AssistantMsg'.content = AssistantMsg.content]_vars

(***************************************************************************)
(* C4. Whatever content is persisted at some point of a session is a       *)
(* prefix of the content persisted when the session ends.  As stated this  *)
(* fails when a throttled flush is followed by an error finalization,      *)
(* which replaces the content.                                             *)
(***************************************************************************)
C4_PrefixOfFinalAsStated ==
    SessionEnded =>
        \A i \in 1..Len(MessageWrites) :
            IsPrefix(MessageWrites[i].content, AssistantMsg.content)

\* C4 as amended: every content written by persist is a prefix of every content
\* persist writes later, and of the final content of a session that ends complete
C4_PrefixOfFinal ==
    /\ \A i, j \in 1..Len(PersistWrites) :
           i < j => IsPrefix(PersistWrites[i].content, PersistWrites[j].content)
    /\ SessionEnded /\ AssistantMsg.status = "complete" =>
           \A i \in 1..Len(PersistWrites) :
               IsPrefix(PersistWrites[i].content, AssistantMsg.content)

\* a throttled flush of "Hel" was followed by a flush of "Hel" "lo"
C4_Witness ==
    /\ SessionEnded
    /\ AssistantMsg.status = "complete"
    /\ Len(PersistWrites) >= 2
    /\ PersistWrites[1].content = <<"Hel">>
    /\ PersistWrites[2].content = <<"Hel", "lo">>

(***************************************************************************)
(* C5. At every durable write of the message content, the written content  *)
(* is a prefix of the text already written to the client.  As stated this  *)
(* fails for the error finalizations, which write the error text before    *)
(* (or without) telling the client.                                        *)
(***************************************************************************)
C5_NeverAheadAsStated ==
    \A i \in 1..Len(MessageWrites) :
        IsPrefix(MessageWrites[i].content, MessageWrites[i].sent)

\* C5 as amended: it holds of every write made by persist
C5_NeverAhead ==
    \A i \in 1..Len(PersistWrites) :
        IsPrefix(PersistWrites[i].content, PersistWrites[i].sent)

\* a throttled flush wrote text while the relay was still going on
C5_Witness ==
    /\ pc = "loop"
    /\ Len(PersistWrites) >= 1
    /\ ~PersistWrites[1].final
    /\ PersistWrites[1].content # <<>>

(***************************************************************************)
(* C6. Two consecutive writes of persist of which the second is not final  *)
(* are at least 250 ms apart, and no write that is not final happens       *)
(* within 250 ms of the session's start.                                   *)
(***************************************************************************)
C6_Throttle ==
    \A j \in 1..Len(PersistWrites) :
        ~PersistWrites[j].final =>
            /\ PersistWrites[j].at - sessionStart >= persistEveryMs
            /\ j > 1 => PersistWrites[j].at - PersistWrites[j - 1].at >= persistEveryMs

\* two throttled flushes happened, and deltas in between were not flushed
C6_Witness ==
    /\ Len(PersistWrites) >= 2
    /\ ~PersistWrites[2].final
    /\ Len(DeltaEvents) > Len(PersistWrites)

(***************************************************************************)
(* C7. persist(final = true) always writes the accumulator with status     *)
(* complete, whatever time has passed since the last flush: after it the   *)
(* persisted content is the text sent to the client.  persist(true) is     *)
(* what ends every session that has text and did not end by markError.     *)
(***************************************************************************)
C7_FinalAlwaysWrites ==
    SessionEnded /\ HasText(assistantText) /\ LastEventKind # "error" =>
        /\ AssistantMsg.status = "complete"
        /\ AssistantMsg.content = assistantText
        /\ AssistantMsg.content = SentDeltas
        /\ PersistWrites # <<>>
        /\ PersistWrites[Len(PersistWrites)].final
        /\ PersistWrites[Len(PersistWrites)].content = assistantText

\* a final flush less than 250 ms after the previous flush
C7_Witness ==
    /\ SessionEnded
    /\ Len(PersistWrites) >= 2
    /\ PersistWrites[Len(PersistWrites)].final
    /\ PersistWrites[Len(PersistWrites)].at - PersistWrites[Len(PersistWrites) - 1].at
         < persistEveryMs
    /\ PersistWrites[Len(PersistWrites)].content # PersistWrites[Len(PersistWrites) - 1].content

(***************************************************************************)
(* C8. HTTP 429 before any byte is streamed, whatever the response body:   *)
(* the message ends error / rate_limited with the rate-limit text as       *)
(* content, and the client is written exactly one error line.              *)
(***************************************************************************)
Http429 ==
    /\ SessionEnded
    /\ Len(events) = 1
    /\ events[1].kind = "error"
    /\ events[1].status = 429

C8_RateLimited ==
    Http429 =>
        /\ AssistantMsg.status = "error"
        /\ AssistantMsg.errorCode = "rate_limited"
        /\ AssistantMsg.errorMessage = Some(MsgRateLimited)
        /\ AssistantMsg.content = MsgRateLimited
        /\ sink = <<ErrorNotice(MsgRateLimited)>>

(***************************************************************************)
(* C9. mapUpstreamError classifies by priority: (1) status 429 or embedded *)
(* code 429: rate_limited; (2) status 401 or 403: auth_error; (3) an       *)
(* embedded message that is not empty: upstream_error with that message;   *)
(* (4) upstream_error with the generic message.  Rules 1 and 2 look at the *)
(* status whether or not the body decodes.  (The embedded message is taken *)
(* without its surrounding white space, as the code takes it.)             *)
(***************************************************************************)
EmbeddedCode(rawBody) == IF JSONParses(rawBody) THEN JSONParse(rawBody).code ELSE 0
EmbeddedMessage(rawBody) ==
    IF JSONParses(rawBody) /\ JSONParse(rawBody).msgIsString
    THEN Trim(JSONParse(rawBody).msg) ELSE <<>>

ByPriority(status, rawBody) ==
    IF status = 429 \/ EmbeddedCode(rawBody) = 429
    THEN [errorCode |-> "rate_limited", errorMessage |-> MsgRateLimited]
    ELSE IF status \in {401, 403}
    THEN [errorCode |-> "auth_error", errorMessage |-> MsgAuth]
    ELSE IF EmbeddedMessage(rawBody) # <<>>
    THEN [errorCode |-> "upstream_error", errorMessage |-> EmbeddedMessage(rawBody)]
    ELSE [errorCode |-> "upstream_error", errorMessage |-> MsgGeneric]

\* every session that ended by markError carries the classification of its error
C9_PriorityOrder ==
    SessionEnded /\ LastEventKind = "error" =>
        LET e == events[Len(events)]
        IN  /\ AssistantMsg.errorCode = ByPriority(e.status, e.arg).errorCode
            /\ AssistantMsg.errorMessage = Some(ByPriority(e.status, e.arg).errorMessage)

(***************************************************************************)
(* C10. The client cancels after it received d1..dk (k >= 1) of a longer   *)
(* response: the session ends complete with content exactly d1+...+dk, and *)
(* no delta decoded after the trip is added.  As stated this fails when    *)
(* d1..dk are only white space (the session ends as error aborted), and    *)
(* when the chunk being decoded at the trip holds further blocks: they are *)
(* still relayed, be they deltas, the sentinel or a provider error.        *)
(***************************************************************************)
CancelledMidRelay == SessionEnded /\ aborted /\ trip.pc = "relaying"

CancelledBeforeText == SessionEnded /\ aborted /\ trip.empty

EndedWithoutDelta ==
    /\ SessionEnded
    /\ ~aborted
    /\ LastEventKind = "done"
    /\ DeltaEvents = <<>>

C12_StreamEnded ==
    EndedWithoutDelta =>
        /\ AssistantMsg.status = "error"
        /\ AssistantMsg.errorCode = "stream_ended"
        /\ AssistantMsg.errorMessage = Some(MsgStreamEnded)
        /\ AssistantMsg.content = MsgStreamEnded

\* a payload that is skipped, then the sentinel
C12_Witness ==
    /\ pc = "done"
    /\ ~aborted
    /\ nReads = 2
    /\ events = <<Event("done", 0, <<"[DONE]">>)>>
    /\ AssistantMsg.errorCode = "stream_ended"

(***************************************************************************)
(* C13. On Done with a non-empty accumulator (at least one delta appended, *)
(* be it only white space) the message ends complete with the accumulated  *)
(* content; stream_ended is chosen only when the accumulator is empty.     *)
(* As stated this fails for an accumulator of white space only: onDone     *)
(* tests the trimmed text, and the message ends as error stream_ended.     *)
(***************************************************************************)
EndedByDone == SessionEnded /\ LastEventKind = "done"

C14_CompleteHasContent ==
    \A i \in 1..Len(messages) :
        messages[i].role = "assistant" /\ messages[i].status = "complete" =>
            /\ messages[i].content # <<>>
            /\ Trim(messages[i].content) # <<>>

\* the connection broke after one delta: the catch block completed the message
C14_Witness ==
    /\ pc = "done"
    /\ ~aborted
    /\ events = <<Event("delta", 0, <<"lo">>)>>
    /\ AssistantMsg.status = "complete"
    /\ AssistantMsg.content = <<"lo">>

(***************************************************************************)
(* C15. The provider cannot be reached at all (the call fails before any   *)
(* response, and the client did not cancel): the message ends with status  *)
(* error, errorCode network_error, the client is written the error line,   *)
(* and the decode loop is never entered.                                   *)
(***************************************************************************)
Unreachable == SessionEnded /\ fetched = "rejected" /\ ~aborted

C15_NetworkError ==
    Unreachable =>
        /\ AssistantMsg.status = "error"
        /\ AssistantMsg.errorCode = "network_error"
        /\ sink = <<ErrorNotice(AssistantMsg.content)>>
        /\ nReads = 0
        /\ events = <<>>

(***************************************************************************)
(* C16. A payload with an error field decoded in mid-stream: the message   *)
(* ends as error, classified by the mapping rules (applied to status 500   *)
(* and the payload), the client is written one error line after the deltas *)
(* sent so far, and no further event of the stream is processed: the error *)
(* is the last handler call, and nothing is appended to the accumulator,   *)
(* written to the client or persisted after it.                            *)
(***************************************************************************)
IsErrorEvent(e) == e.kind = "error"

InBandError == SessionEnded /\ nReads > 0 /\ SelectSeq(events, IsErrorEvent) # <<>>

C16_ProviderError ==
    InBandError =>
        LET e == events[Len(events)]
            class == ByPriority(500, e.arg)
        IN  /\ e.kind = "error" /\ e.status = 500
            /\ Len(SelectSeq(events, IsErrorEvent)) = 1
            /\ AssistantMsg.status = "error"
            /\ AssistantMsg.errorCode = class.errorCode
            /\ AssistantMsg.errorMessage = Some(class.errorMessage)
            /\ AssistantMsg.content = class.errorMessage
            /\ sink = DeltaChunks \o <<ErrorNotice(class.errorMessage)>>
            /\ assistantText = SentDeltas
            /\ MessageWrites[Len(MessageWrites)].by = "markError"

\* a rate-limit error payload after "Hel"; the delta behind it stays in the buffer
C16_Witness ==
    /\ pc = "done"
    /\ nReads = 2
    /\ Len(events) = 2
    /\ events[1] = Event("delta", 0, <<"Hel">>)
    /\ events[2] = Event("error", 500, <<Err429>>)
    /\ buffer = Frame(DeltaLo)
    /\ AssistantMsg.errorCode = "rate_limited"

(***************************************************************************)
(* C17. Every error classification is surfaced both ways: whenever a       *)
(* session ends with the message in status error, the line                 *)
(* "\n[ERROR] <message>\n" with that message's error text has been written *)
(* to the client.                                                          *)
(***************************************************************************)
EndedInError == SessionEnded /\ AssistantMsg.status = "error"

C17_ErrorHasNotice ==
    EndedInError =>
        \E i \in 1..Len(sink) : sink[i] = ErrorNotice(AssistantMsg.content)

(***************************************************************************)
(* C18. In every reachable state, an assistant message with status error   *)
(* has an errorCode of the taxonomy, an errorMessage that is not empty,    *)
(* and content equal to that errorMessage: the error text overwrites the   *)
(* partial content persisted before.  Checked against a store of which one *)
(* operation may throw as well.                                            *)
(***************************************************************************)
Taxonomy ==
    {"rate_limited", "auth_error", "upstream_error", "network_error", "stream_ended",
     "aborted"}

C18_ErrorFields ==
    \A i \in 1..Len(messages) :
        messages[i].role = "assistant" /\ messages[i].status = "error" =>
            /\ messages[i].errorCode \in Taxonomy
            /\ messages[i].errorMessage # None
            /\ messages[i].errorMessage[1] # <<>>
            /\ messages[i].content = messages[i].errorMessage[1]

\* "Hel" was persisted by a throttled flush, then the provider reported an error
C18_Witness ==
    /\ pc = "done"
    /\ Len(PersistWrites) = 1
    /\ PersistWrites[1].content = <<"Hel">>
    /\ AssistantMsg.status = "error"
    /\ AssistantMsg.errorCode = "upstream_error"
    /\ AssistantMsg.content = <<"provider overloaded">>

(***************************************************************************)
(* C19. Every durable mutation of the assistant message made by the relay  *)
(* (throttled flush, final flush, every error finalization, stream_ended   *)
(* and aborted included) is followed by a bump of chats.updatedAt.         *)
(***************************************************************************)
C19_EveryWriteBumps ==
    SessionEnded =>
        \A i \in 1..Len(dbLog) :
            dbLog[i].op = "updateMessage" =>
                /\ i < Len(dbLog)
                /\ dbLog[i + 1].op = "touchChat"
                /\ chat.updatedAt >= dbLog[i].at

(***************************************************************************)
(* C20. Every session that has created its assistant message terminates,   *)
(* given that the upstream ends or the client cancels: the message reaches *)
(* status complete or error, that write is made before the session exits,  *)
(* and the client sink is then closed once, whatever the outcome; nothing  *)
(* is written to the store or to the client after the sink is closed.      *)
(***************************************************************************)
SessionClosed == SessionEnded /\ pc = "done" /\ sinkEnded /\ Terminal(AssistantMsg)

RECURSIVE EventsOf(_, _)
EventsOf(carry, payloads) ==
    CHOOSE es \in {
        IF ev.kind = "none" THEN <<>>
        ELSE IF ev.kind = "delta"
        THEN <<Event("delta", 0, ev.data)>> \o EventsOf(ev.buffer, ev.dataLines)
        ELSE IF ev.kind = "error" THEN <<Event("error", 500, ev.data)>>
        ELSE <<Event("done", 0, ev.data)>>
      : ev \in {NextEvent(carry, payloads)} } : TRUE

\* the handler calls made from the bytes read: all but the onDone of line 90
EndOfInput == Event("done", 0, <<"eof">>)
StreamEvents ==
    IF events # <<>> /\ events[Len(events)] = EndOfInput
    THEN SubSeq(events, 1, Len(events) - 1)
    ELSE events

\* the decode loop has nothing left to do on what was read so far
Drained == pc = "read" \/ (nReads > 0 /\ events # <<>> /\ LastEventKind \in {"done", "error"})

(***************************************************************************)
(* C21. Chunk-boundary independence: the handler calls made after reading  *)
(* a byte stream in any number of chunks are the calls the decoder makes   *)
(* on the same bytes delivered as one chunk: the same onDelta texts in the *)
(* same order, then the same terminal onDone or onError.  Compared each    *)
(* time the decode loop has nothing left to do on what was read.           *)
(***************************************************************************)
C21_ChunkBoundaryIndependence ==
    [](nReads > 0 /\ Drained => StreamEvents = EventsOf(received, <<>>))

\* a block read in two chunks, split between the two line feeds that end it,
\* is decoded as the single chunk of the same bytes is
C21_Witness ==
    /\ nReads = 2
    /\ pc = "read"
    /\ received = Frame(DeltaLo)
    /\ buffer = <<>>
    /\ DeltaEvents # <<>>
    /\ StreamEvents = EventsOf(received, <<>>)

(***************************************************************************)
(* C22. A payload equal to the sentinel [DONE] always ends decoding: once  *)
(* onDone was called for it no handler is called again and nothing more is *)
(* read, whatever is left of the block, of the carry buffer or of the      *)
(* upstream.                                                               *)
(***************************************************************************)
Sentinel == Event("done", 0, <<"[DONE]">>)

SentinelDecoded == events # <<>> /\ events[Len(events)] = Sentinel

C22_DoneEndsDecoding ==
    [][SentinelDecoded => events' = events /\ nReads' = nReads /\ pc' # "loop" /\ pc' # "read"]_vars

\* the sentinel was the first of two payloads of its block, a further block
\* was in the carry buffer and the upstream had more to send: the session
\* ended with none of them handled
C22_Witness ==
    /\ SentinelDecoded
    /\ pc = "done"
    /\ dataLines = <<<<DeltaLo>>>>
    /\ buffer = Frame(DeltaHel)
    /\ nReads < MaxChunks

(***************************************************************************)
(* C24. A failure of the title request (the call rejects, the response is  *)
(* not ok, its body does not parse, or no title is left of it) is          *)
(* swallowed: the step that takes it leaves the conversation, the messages *)
(* and the client sink as they were, the assistant message stays complete  *)
(* with the accumulated content, and streamAssistantReply returns ok.      *)
(***************************************************************************)
EnrichmentFailed ==
    \/ titleReply.settled = "rejected"
    \/ /\ titleReply.settled = "resolved"
       /\ \/ ~titleReply.ok
          \/ ~titleReply.parses
          \/ Trim(StripQuotes(Trim(titleReply.content))) = <<>>

C24_FailureSwallowed ==
    [][pc = "title" /\ EnrichmentFailed' =>
          /\ chat' = chat
          /\ messages' = messages
          /\ dbLog' = dbLog
          /\ sink' = sink
          /\ AssistantMsg.status = "complete"
          /\ AssistantMsg.content = assistantText
          /\ pc' = "respond"
          /\ result' = OkResult]_vars

\* the provider answered the title request of a first exchange with an error
\* status: the session ended as any completed one, the title still the default
C24_Witness ==
    /\ pc = "done"
    /\ ~aborted
    /\ titleReply.settled = "resolved"
    /\ ~titleReply.ok
    /\ result = OkResult
    /\ chat.title = <<"New chat">>
    /\ AssistantMsg.status = "complete"
    /\ AssistantMsg.content = <<"Hel", "lo">>
    /\ SinkText = <<"Hel", "lo">>

(***************************************************************************)
(* C26. stream_ended is assigned only when the client did not cancel: a    *)
(* session whose signal had aborted when onDone found nothing to keep does *)
(* not finalize its message as stream_ended.                               *)
(***************************************************************************)
C26_StreamEndedOnlyUncancelled ==
    SessionEnded /\ aborted => AssistantMsg.errorCode # "stream_ended"

(***************************************************************************)
(* C27. The session has one cancellation signal, aborted by the client's   *)
(* abort of the request or by the close of the response.  Once it has      *)
(* aborted it stays aborted and the upstream connection is gone: no        *)
(* further chunk is read (a pending or later read rejects), and a provider *)
(* call that is still pending, for the completion or for the title, is     *)
(* cancelled.                                                              *)
(***************************************************************************)
C27_TripCancelsUpstream ==
    [][aborted =>
          /\ aborted'
          /\ nReads' = nReads
          /\ received' = received
          /\ pc = "read" => pc' \in {"read", "catch"}
          /\ pc = "fetch" => pc' \in {"fetch", "catch"} /\ fetched' \in {"pending", "rejected"}
          /\ pc = "title" /\ pc' # "title" => titleReply' = Rejected]_vars

\* the client left while the first chunk's delta was being flushed: the rest
\* of that chunk was handled, the next read rejected, and the text was kept
C27_Witness ==
    /\ pc = "done"
    /\ aborted
    /\ trip.pc = "relaying"
    /\ nReads = 1
    /\ nReads < MaxChunks
    /\ LastEventKind = "delta"
    /\ AssistantMsg.status = "complete"

(***************************************************************************)
(* C28. Every run of openRouterStreamChat that returns normally has made   *)
(* exactly one terminal call, onDone or onError, and no call after it: all *)
(* onDelta calls come before.  In no run, returned or not, is a second     *)
(* terminal call made or a handler called after the terminal one.          *)
(***************************************************************************)
IsTerminalEvent(e) == e.kind \in {"done", "error"}
TerminalEvents == SelectSeq(events, IsTerminalEvent)

\* a step on which openRouterStreamChat returns without having thrown
ReturnsNormally == pc \in {"fetch", "read", "loop"} /\ pc' \in {"title", "respond"}

C28_OneTerminalEvent ==
    /\ [](/\ Len(TerminalEvents) <= 1
          /\ TerminalEvents # <<>> => IsTerminalEvent(events[Len(events)]))
    /\ [][ReturnsNormally => Len(TerminalEvents') = 1]_vars
    /\ [][TerminalEvents # <<>> => events' = events]_vars

\* the upstream ended after two deltas without a sentinel: the one terminal
\* call is the onDone made at the end of the input
C28_Witness ==
    /\ pc = "done"
    /\ fetched = "resolved"
    /\ Len(events) = 3
    /\ Len(DeltaEvents) = 2
    /\ events[3] = EndOfInput
    /\ TerminalEvents = <<EndOfInput>>

(***************************************************************************)
(* C29. The decoder never drops a partial trailing block.                  *)
(*                                                                         *)
(* As stated, the payloads of a last block that is still in the carry      *)
(* buffer when the upstream ends are processed too: a run that ended at    *)
(* the end of the input made the calls of the bytes read with their last   *)
(* block closed.                                                           *)
(***************************************************************************)
EndedAtEndOfInput == events # <<>> /\ events[Len(events)] = EndOfInput

C29_TrailingBlockProcessedAsStated ==
    EndedAtEndOfInput => StreamEvents = EventsOf(received \o <<"\n", "\n">>, <<>>)

\* what the block loop leaves of a text: the bytes after its last delimiter
RECURSIVE Carry(_)
Carry(text) ==
    CHOOSE rest \in {
        IF IndexOfBlankLine(b) = 0 THEN b
        ELSE Carry(SubSeq(b, IndexOfBlankLine(b) + 2, Len(b)))
      : b \in {text} } : TRUE

(***************************************************************************)
(* C29, amended.  While the upstream is open the bytes after the last      *)
(* delimiter are kept and put in front of the next chunk, and the payloads *)
(* of every block that a delimiter has closed are processed.  A block that *)
(* is still open when the upstream ends is discarded: the run then made    *)
(* the calls of the closed blocks, followed by the onDone of line 90.      *)
(***************************************************************************)
C29_CarryKept ==
    [](/\ pc = "read" => buffer = Carry(received) /\ dataLines = <<>>
       /\ EndedAtEndOfInput =>
             /\ buffer = Carry(received)
             /\ StreamEvents = EventsOf(received, <<>>))

\* a chunk that ends inside a block was read: the block waits in the carry
\* buffer for the next chunk, and no call was made for it
C29_Witness ==
    /\ pc = "read"
    /\ nReads = 1
    /\ received = <<"data:", " ", DeltaLo, "\n">>
    /\ buffer = received
    /\ events = <<>>

(***************************************************************************)
(* C30. A payload that does not parse is skipped without effect: no        *)
(* handler is called for it and the payloads after it, in its block and in *)
(* later blocks, are processed as if its line had not been sent.  The      *)
(* calls made for the bytes read are the calls the decoder makes on the    *)
(* same bytes without the lines of the payloads that do not parse.         *)
(***************************************************************************)
Malformed(data) == data # <<>> /\ data # <<"[DONE]">> /\ ~JSONParses(data)

\* the text without its data lines of malformed payloads
RECURSIVE WithoutMalformed(_)
WithoutMalformed(text) ==
    CHOOSE kept \in {
        IF t = <<>> THEN <<>>
        ELSE IF Len(t) >= 4 /\ t[1] = "data:" /\ t[4] = "\n" /\ Malformed(Trim(<<t[2], t[3]>>))
        THEN WithoutMalformed(SubSeq(t, 5, Len(t)))
        ELSE <<Head(t)>> \o WithoutMalformed(Tail(t))
      : t \in {text} } : TRUE

HasMalformed(text) ==
    \E i \in 1..Len(text) : text[i] \notin {"data:", "\n"} /\ Malformed(Trim(<<text[i]>>))

C30_MalformedSkipped ==
    [](HasMalformed(received) /\ Drained =>
          StreamEvents = EventsOf(WithoutMalformed(received), <<>>))

\* a block whose first payload does not parse and whose second is a delta,
\* then the sentinel: the delta and the sentinel were handled, nothing else
C30_Witness ==
    /\ pc = "done"
    /\ nReads = 1
    /\ Len(received) > 4
    /\ SubSeq(received, 1, 4) = <<"data:", " ", "not json", "\n">>
    /\ WithoutMalformed(received) = SubSeq(received, 5, Len(received))
    /\ events = <<Event("delta", 0, <<" ">>), Sentinel>>
    /\ SinkText = <<" ">>

(***************************************************************************)
(* C23. The title is requested only for the first exchange of a chat and   *)
(* once for it: of the requests on one chat, however their steps           *)
(* interleave, at most one sends the title request, and a request whose    *)
(* history query found messages sends none.                                *)
(***************************************************************************)
TitleRequests ==
    (IF titleReply # NoReply THEN 1 ELSE 0) + (IF peer.titled THEN 1 ELSE 0)

C23_TitleRequestedOnce ==
    /\ TitleRequests <= 1
    /\ titleReply # NoReply => isFirstMessage
    /\ peer.titled => peer.isFirstMessage

(***************************************************************************)
(* C25. No message row is written by two requests: each request updates    *)
(* only the assistant row that its own insert returned, and the rows of    *)
(* two requests differ.                                                    *)
(***************************************************************************)
IsUpdate(i) == dbLog[i].op = "updateMessage"

OwnRow(session) == IF session = "peer" THEN peer.assistantMsgId ELSE assistantMsgId

C25_OneWriterPerMessage ==
    /\ \A i \in 1..Len(dbLog) :
          IsUpdate(i) =>
              /\ dbLog[i].id = OwnRow(dbLog[i].session)
              /\ dbLog[i].id \in 1..Len(messages)
              /\ messages[dbLog[i].id].role = "assistant"
    /\ \A i, j \in 1..Len(dbLog) :
          IsUpdate(i) /\ IsUpdate(j) /\ dbLog[i].id = dbLog[j].id =>
              dbLog[i].session = dbLog[j].session
    /\ assistantMsgId # 0 /\ peer.assistantMsgId # 0 => assistantMsgId # peer.assistantMsgId

\* two requests overlapped on an empty chat, the second inserting its user
\* row before and its assistant row after the inserts of the first; each ended
\* with its own text in its own row
C25_Witness ==
    /\ pc = "done"
    /\ peer.pc = "done"
    /\ peer.userMsgId = 1
    /\ assistantMsgId = 3
    /\ peer.assistantMsgId = 4
    /\ messages[3].status = "complete"
    /\ messages[3].content = <<"Hel", "lo">>
    /\ messages[4].status = "complete"
    /\ messages[4].content = PeerText

(***************************************************************************)
(* The payloads of a byte stream as the framing rule gives them: the text  *)
(* is cut into the blocks that a blank line has closed, a block of which   *)
(* every line is a comment gives none, and every other block gives one     *)
(* payload per line that starts with the data marker, in line order.       *)
(***************************************************************************)
RECURSIVE ClosedBlocks(_)
ClosedBlocks(text) ==
    CHOOSE blocks \in {
        IF IndexOfBlankLine(b) = 0 THEN <<>>
        ELSE <<SubSeq(b, 1, IndexOfBlankLine(b) - 1)>>
               \o ClosedBlocks(SubSeq(b, IndexOfBlankLine(b) + 2, Len(b)))
      : b \in {text} } : TRUE

IsComment(line) == line # <<>> /\ Head(line) = ":"

OnlyComment(block) ==
    LET lines == SplitLines(block, <<>>)
    IN  \A i \in 1..Len(lines) : IsComment(lines[i])

RECURSIVE PayloadsOfBlocks(_)
PayloadsOfBlocks(blocks) ==
    IF blocks = <<>> THEN <<>>
    ELSE (IF OnlyComment(Head(blocks)) THEN <<>> ELSE extractSseDataLines(Head(blocks)))
           \o PayloadsOfBlocks(Tail(blocks))

(***************************************************************************)
(* C31. Only the blocks that consist solely of a comment are discarded: of *)
(* every other block each line that starts with the data marker gives one  *)
(* payload, and the payloads are processed in line order, those of a block *)
(* whose first line is a comment included.  The handler calls made for the *)
(* bytes read are the calls for these payloads, up to the terminal one.    *)
(***************************************************************************)
C31_OnlyCommentBlocksDiscarded ==
    nReads > 0 /\ Drained =>
        StreamEvents = EventsOf(<<>>, PayloadsOfBlocks(ClosedBlocks(received)))

(***************************************************************************)
(* C32. For each decoded delta the relay, before the next event is         *)
(* decoded, (a) appends the delta to the accumulator, (b) writes it        *)
(* verbatim to the client and (c) calls persist(false), which sees the     *)
(* accumulator and the sink with the delta in them.  So at every moment    *)
(* the accumulator is the concatenation, in decoded order, of the deltas   *)
(* written to the client.                                                  *)
(***************************************************************************)
\* a step on which onDelta is called
DeltaDelivered ==
    Len(events') = Len(events) + 1 /\ events'[Len(events')].kind = "delta"

C32_DeltaOrder ==
    /\ [](/\ assistantText = SentDeltas
          /\ Len(sink) >= Len(DeltaChunks)
          /\ SubSeq(sink, 1, Len(DeltaChunks)) = DeltaChunks
          /\ \A i \in 1..Len(PersistWrites) :
                ~PersistWrites[i].final => PersistWrites[i].content = PersistWrites[i].sent)
    /\ [][DeltaDelivered =>
            LET delta == events'[Len(events')].arg
            IN  /\ assistantText' = assistantText \o delta
                /\ sink' = Append(sink, delta)
                /\ now - lastPersist >= persistEveryMs =>
                      /\ AssistantMsg'.content = assistantText'
                      /\ AssistantMsg'.status = "streaming"
                      /\ lastPersist' = now]_vars

\* the second delta of a response was flushed as it was relayed: the store
\* holds both deltas, in the order in which the client was written them
C32_Witness ==
    /\ pc = "loop"
    /\ events = <<Event("delta", 0, <<"Hel">>), Event("delta", 0, <<"lo">>)>>
    /\ assistantText = <<"Hel", "lo">>
    /\ sink = << <<"Hel">>, <<"lo">> >>
    /\ Len(PersistWrites) = 1
    /\ AssistantMsg.status = "streaming"
    /\ AssistantMsg.content = <<"Hel", "lo">>

(***************************************************************************)
(* C33. A call persist(false) made less than 250 ms after the last flush   *)
(* is a no-op: the persisted content and status of the message, the        *)
(* chat's updatedAt and the throttle's timestamp stay as they were, and    *)
(* nothing is written to the store.  The accumulator and the client are    *)
(* not affected by the skip: the delta is in both.                         *)
(***************************************************************************)
C33_ThrottledIsNoOp ==
    [][DeltaDelivered /\ now - lastPersist < persistEveryMs =>
          /\ messages' = messages
          /\ chat' = chat
          /\ dbLog' = dbLog
          /\ lastPersist' = lastPersist
          /\ assistantText' = assistantText \o events'[Len(events')].arg
          /\ sink' = Append(sink, events'[Len(events')].arg)
          /\ pc' = "loop"]_vars

\* two deltas were relayed within 250 ms of the session's start: the client
\* has both, the store still has the empty placeholder
C33_Witness ==
    /\ pc = "loop"
    /\ now - sessionStart < persistEveryMs
    /\ assistantText = <<"Hel", "lo">>
    /\ sink = << <<"Hel">>, <<"lo">> >>
    /\ dbLog = <<>>
    /\ lastPersist = sessionStart
    /\ AssistantMsg.status = "streaming"
    /\ AssistantMsg.content = <<>>

(***************************************************************************)
(* C34. A precondition of streamAssistantReply fails (the chat is not      *)
(* found, it belongs to another user, or no model identifier resolves):    *)
(* this happens before the session starts.  No user message and no         *)
(* assistant message is inserted, no upstream request is made, the         *)
(* conversation is not modified, and the result is ok = false, for which   *)
(* the route writes one error line and closes the client sink.             *)
(***************************************************************************)
PreconditionFailed == result.code \in {403, 404, 500}

C34_PreconditionFailure ==
    /\ [](PreconditionFailed =>
            /\ ~result.ok
            /\ assistantMsgId = 0
            /\ messages \in {<<>>, PriorExchange}
            /\ dbLog = <<>>
            /\ chat = [title |-> <<"New chat">>, updatedAt |-> 0]
            /\ fetched = "pending"
            /\ nReads = 0
            /\ events = <<>>
            /\ titleReply = NoReply
            /\ pc \in {"respond", "done"}
            /\ pc = "respond" => sink = <<>> /\ ~sinkEnded
            /\ pc = "done" => sink = <<ErrorNotice(result.error)>> /\ sinkEnded)
    /\ [][PreconditionFailed' => messages' = messages /\ chat' = chat]_vars
    /\ [][~result'.ok /\ pc' = "respond" => pc = "precheck"]_vars

\* a chat with an earlier exchange and no model configured: the client was
\* written the error line, and the chat is as it was
C34_Witness ==
    /\ pc = "done"
    /\ result = Failure(500, <<"No model configured (OPENROUTER_MODEL or chat.modelId)">>)
    /\ messages = PriorExchange
    /\ sink = <<ErrorNotice(<<"No model configured (OPENROUTER_MODEL or chat.modelId)">>)>>
    /\ sinkEnded

(***************************************************************************)
(* C35. Each started session creates exactly one user message (status      *)
(* complete) and then exactly one assistant message, which starts with     *)
(* status streaming, empty content, no errorCode and no errorMessage, and  *)
(* whose parent is the user message of that session; afterwards the        *)
(* assistant message is the only row the session changes.  Checked for two *)
(* requests whose inserts interleave on one chat.                          *)
(***************************************************************************)
IsRowOf(content, i) == messages[i].role = "user" /\ messages[i].content = content
UserRows(content) == {i \in 1..Len(messages) : IsRowOf(content, i)}
AssistantRowsOf(userMsgId) ==
    {i \in 1..Len(messages) : messages[i].role = "assistant" /\ messages[i].parent = userMsgId}

Placeholder(userMsgId) == Row("assistant", <<>>, "streaming", "null", None, userMsgId)

C35_OneExchangePerSession ==
    /\ [](assistantMsgId # 0 =>
            /\ UserRows(UserContent) = {assistantMsgId - 1}
            /\ messages[assistantMsgId - 1] = Row("user", UserContent, "complete", "null", None, 0)
            /\ AssistantRowsOf(assistantMsgId - 1) = {assistantMsgId})
    /\ [](peer.userMsgId # 0 =>
            /\ UserRows(PeerContent) = {peer.userMsgId}
            /\ messages[peer.userMsgId] = Row("user", PeerContent, "complete", "null", None, 0)
            /\ AssistantRowsOf(peer.userMsgId) =
                   IF peer.assistantMsgId # 0 THEN {peer.assistantMsgId} ELSE {})
    /\ [][assistantMsgId' # assistantMsgId =>
            /\ assistantMsgId = 0
            /\ messages'[assistantMsgId'] = Placeholder(assistantMsgId' - 1)]_vars
    /\ [][peer'.assistantMsgId # peer.assistantMsgId =>
            /\ peer.assistantMsgId = 0
            /\ messages'[peer'.assistantMsgId] = Placeholder(peer.userMsgId)]_vars
    /\ [][\A i \in 1..Len(messages) :
            /\ i <= Len(messages')
            /\ messages'[i] # messages[i] =>
                  /\ i \in {assistantMsgId, peer.assistantMsgId}
                  /\ dbLog' # dbLog
                  /\ i = OwnRow(dbLog'[Len(dbLog')].session)]_vars

\* the second request inserted its user message before, and its placeholder
\* after, the two inserts of the first: each placeholder points at the user
\* message of its own request
C35_Witness ==
    /\ peer.userMsgId = 1
    /\ assistantMsgId = 3
    /\ peer.assistantMsgId = 4
    /\ messages[3] = Placeholder(2)
    /\ messages[4] = Placeholder(1)

(***************************************************************************)
(* C36. The throttle is scoped to the session.  Of two relays that run at  *)
(* once, each decides to write or to skip from the clock and from its own  *)
(* last flush alone: a delta is flushed exactly when 250 ms have passed    *)
(* since the last flush of the same session (or since its start), whatever *)
(* the other session did in between, and no step of one session changes    *)
(* the timestamp of the other.  (The second session started at time 0.)    *)
(***************************************************************************)
IsFlushOfRequest(e) == e.op = "updateMessage" /\ e.by = "persist" /\ e.session = "request"
IsFlushOfPeer(e) == e.op = "updateMessage" /\ e.by = "persist" /\ e.session = "peer"

LastFlush(flushes, start) == IF flushes = <<>> THEN start ELSE flushes[Len(flushes)].at

\* a step on which the onDelta of the second request is called
PeerDelivered == peer'.assistantText # peer.assistantText

C36_ThrottleIsPerSession ==
    /\ [][DeltaDelivered =>
            /\ dbLog' # dbLog <=>
                   now - LastFlush(SelectSeq(dbLog, IsFlushOfRequest), sessionStart)
                       >= persistEveryMs
            /\ peer' = peer]_vars
    /\ [][PeerDelivered =>
            /\ dbLog' # dbLog <=>
                   now - LastFlush(SelectSeq(dbLog, IsFlushOfPeer), 0) >= persistEveryMs
            /\ lastPersist' = lastPersist]_vars

\* each session flushed a delta at the same instant, the second right after
\* the first: neither flush kept the other back
C36_Witness ==
    \E i \in 1..Len(dbLog) :
        /\ i + 2 <= Len(dbLog)
        /\ IsFlushOfRequest(dbLog[i])
        /\ IsFlushOfPeer(dbLog[i + 2])
        /\ dbLog[i].at = dbLog[i + 2].at
        /\ ~dbLog[i].final

(***************************************************************************)
(* C37. The classification aborted is given only to sessions whose signal  *)
(* has aborted: a session in which the client neither disconnected nor     *)
(* cancelled does not end with errorCode aborted, whatever else failed in  *)
(* it (the provider call, a read of the response body, a handler).         *)
(***************************************************************************)
C37_AbortedOnlyIfTripped ==
    SessionEnded /\ AssistantMsg.errorCode = "aborted" => aborted

(***************************************************************************)
(* C38. In every reachable state an assistant message with status          *)
(* streaming or complete has no errorCode and no errorMessage, and an      *)
(* assistant message has an errorCode, and an errorMessage, exactly when   *)
(* its status is error.  Checked against a store of which one operation    *)
(* may throw, where a message written as error can be written again.       *)
(***************************************************************************)
C38_ErrorFieldsFollowStatus ==
    \A i \in 1..Len(messages) :
        messages[i].role = "assistant" =>
            /\ messages[i].status \in {"streaming", "complete", "error"}
            /\ messages[i].errorCode # "null" <=> messages[i].status = "error"
            /\ messages[i].errorMessage # None <=> messages[i].status = "error"

\* markError wrote the error and then threw on the chats row: the catch block
\* kept the text that was relayed, and its persist cleared the error fields
C38_Witness ==
    /\ pc = "done"
    /\ Len(MessageWrites) >= 2
    /\ MessageWrites[Len(MessageWrites) - 1].by = "markError"
    /\ MessageWrites[Len(MessageWrites)].by = "persist"
    /\ AssistantMsg.status = "complete"
    /\ AssistantMsg.errorCode = "null"
    /\ AssistantMsg.errorMessage = None

(***************************************************************************)
(* C39. At most one error line is written to the client per request, on    *)
(* every path.  A session that reported an upstream error through          *)
(* markError returns ok = true, so the route writes no second line; and no *)
(* error line is written in a session that ends with status complete.      *)
(* Checked against a store of which one operation may throw as well.       *)
(***************************************************************************)
IsNotice(chunk) == Len(chunk) >= 2 /\ chunk[1] = "\n" /\ chunk[2] = "[ERROR] "
Notices == SelectSeq(sink, IsNotice)

IsMarkError(e) == e.op = "updateMessage" /\ e.by = "markError"

C39_OneNotice ==
    /\ Len(Notices) <= 1
    /\ SelectSeq(dbLog, IsMarkError) # <<>> /\ pc \in {"respond", "done"} => result = OkResult
    /\ SessionEnded /\ AssistantMsg.status = "complete" => Notices = <<>>

\* the provider reported an error after "Hel" had been relayed: the session
\* returned ok, and the one error line in the sink is the one markError wrote
C39_Witness ==
    /\ pc = "done"
    /\ result = OkResult
    /\ SelectSeq(dbLog, IsMarkError) # <<>>
    /\ sink = << <<"Hel">>, ErrorNotice(<<"provider overloaded">>) >>
    /\ AssistantMsg.status = "error"

(***************************************************************************)
(* C40. Completion comes before enrichment.  The final flush that sets the *)
(* status complete is made before the title request is issued; the title   *)
(* of the chat is written only while the message is complete; and the      *)
(* client sink is closed only after the title request has settled, with a  *)
(* title or without.                                                       *)
(***************************************************************************)
\* onDone took the final flush for the first exchange of a chat
EnrichmentDue ==
    /\ isFirstMessage
    /\ LastEventKind = "done"
    /\ HasText(assistantText)

C40_CompletionBeforeEnrichment ==
    /\ [](pc = "title" =>
            /\ AssistantMsg.status = "complete"
            /\ AssistantMsg.content = assistantText
            /\ MessageWrites[Len(MessageWrites)].final
            /\ titleReply = NoReply
            /\ ~sinkEnded)
    /\ [][titleReply' # titleReply =>
            pc = "title" /\ AssistantMsg.status = "complete"]_vars
    /\ [][chat'.title # chat.title =>
            /\ titleReply' # titleReply
            /\ AssistantMsg.status = "complete"
            /\ AssistantMsg'.status = "complete"]_vars
    /\ [][sinkEnded' # sinkEnded =>
            /\ pc # "title"
            /\ EnrichmentDue => titleReply # NoReply]_vars

\* a first exchange ended with a title: the last three store operations are
\* the final flush, its bump of the chat, and the title, and the sink was
\* closed after them
C40_Witness ==
    /\ pc = "done"
    /\ sinkEnded
    /\ chat.title = <<"Greeting">>
    /\ AssistantMsg.status = "complete"
    /\ Len(dbLog) >= 3
    /\ dbLog[Len(dbLog)].op = "setTitle"
    /\ dbLog[Len(dbLog) - 1].op = "touchChat"
    /\ dbLog[Len(dbLog) - 2].op = "updateMessage"
    /\ dbLog[Len(dbLog) - 2].final

====
